---- MODULE Spec2Model ----
(***************************************************************************)
(* Coinbase Advanced Trade access layer: the token minter                   *)
(* (auth/jwt_generator.py) and the request executor                         *)
(* (core/coinbase_requests_client.py: _get, _post, _put, _delete over one   *)
(* requests.Session mounted with HTTPAdapter(max_retries=Retry(total=3,     *)
(* backoff_factor=0.3, status_forcelist=[429, 500, 502, 503, 504]))).       *)
(*                                                                         *)
(* Times are in tenths of a second, so that the backoff factor 0.3 is the   *)
(* integer 3.  Redirect responses (3xx) are outside the transport's         *)
(* alphabet: the model covers calls the server answers itself.              *)
(***************************************************************************)
EXTENDS Integers, Sequences, FiniteSets, TLC

VARIABLES
    KEY_ID,              \* jwt_generator.KEY_ID, read from the environment at load
    PRIVATE_KEY_BASE64,  \* jwt_generator.PRIVATE_KEY_BASE64, likewise
    pc,                  \* "idle" | "sending" | "done": position of the executor call
    method,              \* HTTP verb of the call in progress
    is_public,           \* the call's is_public argument
    url,                 \* the url argument (where the request goes)
    path,                \* the path argument (signed into the token)
    headers,             \* the headers dict handed to session.<verb>
    retries,             \* urllib3 Retry object of the call: total left, history
    sent,                \* requests this call attempted, in order (one per attempt,
                         \* an attempt whose connection could not be opened included)
    slept,               \* delays slept between attempts, in tenths of a second
    answers,             \* what the transport answered to each attempt
    minted,              \* tokens build_jwt returned during this call
    response,            \* the response session.<verb> handed back, if it did
    outcome,             \* how the call ended: returned value or raised exception
    mints,               \* calls of build_jwt made directly: arguments, clock
                         \* reading, nonce drawn, and what the call gave
    stdout,              \* the lines those calls have written to standard output
    la,                  \* list_accounts in progress: its position, its locals
                         \* limit, cursor and all_accounts, and what it gave
    fetches,             \* the _get calls of that list_accounts: params and result
    tool,                \* the tool invocation in progress: its position, the tool,
                         \* its arguments, what the core gave it and its result
    core_calls,          \* the core functions that invocation has called
    calls,               \* per thread: the locals of its executor call
    wire                 \* the requests that concurrent calls have transmitted

\* The state of the executor call in progress
executorVars == <<pc, method, is_public, url, path, headers, retries, sent, slept,
                  answers, minted, response, outcome>>

\* The state of the minter exercised on its own
minterVars == <<mints, stdout>>

\* The state of the pagination loop
pageVars == <<la, fetches>>

\* The state of the tool layer
toolVars == <<tool, core_calls>>

\* The state of the threads that call the executor concurrently
concVars == <<calls, wire>>

\* What no executor function touches
otherVars == <<minterVars, pageVars, toolVars, concVars>>

vars == <<KEY_ID, PRIVATE_KEY_BASE64, pc, method, is_public, url, path, headers,
          retries, sent, slept, answers, minted, response, outcome, mints, stdout, la,
          fetches,
          tool, core_calls, calls, wire>>

----------------------------------------------------------------------------
(* Program constants *)

\* Retry(total=3, ...): the number of retries allowed after the first attempt
RETRY_TOTAL == 3

\* Retry(backoff_factor=0.3): 0.3 s, in tenths of a second
BACKOFF_FACTOR == 3

\* A token that lives an hour
TOKEN_TTL_hour == 60 * 60

\* payload["exp"] = now + 120
TOKEN_TTL == 120

\* base64.b64decode(PRIVATE_KEY_BASE64)[:32]
SEED_LEN == 32

\* A force list that also retries "not found"
STATUS_FORCELIST_with_404 == {404, 429, 500, 502, 503, 504}

\* Retry(status_forcelist=[429, 500, 502, 503, 504])
STATUS_FORCELIST == {429, 500, 502, 503, 504}

\* A policy built with POST among its allowed methods
ALLOWED_METHODS_with_POST == {"GET", "PUT", "DELETE", "POST"}

\* urllib3 Retry.DEFAULT_ALLOWED_METHODS restricted to the verbs the executor uses:
\* Retry(...) is built without allowed_methods, so POST is not in it
ALLOWED_METHODS == {"GET", "PUT", "DELETE"}

\* urllib3 Retry.RETRY_AFTER_STATUS_CODES (respect_retry_after_header defaults to True)
RETRY_AFTER_STATUS_CODES == {413, 429, 503}

BASE_URL == "https://api.coinbase.com/api/v3/brokerage"

PUBLIC_BASE_URL == "https://api.coinbase.com/api/v3/brokerage/market"

----------------------------------------------------------------------------
(* Values *)

\* Python's None, and a value that is present
None == [none |-> TRUE]

Some(v) == [some |-> v]

\* A string is a sequence of pieces: literal text, or the output of an encoder.
Lit(s) == [lit |-> s]

\* The environments the module may be loaded in: os.getenv gives None for an
\* unset variable.  A key blob is given by its decoded bytes.
\* Byte strings are kept run-length coded: a sequence of runs of n equal bytes b.
Blob(n, tail) ==
    IF n <= SEED_LEN THEN <<[b |-> 7, n |-> n]>>
    ELSE <<[b |-> 7, n |-> SEED_LEN], [b |-> tail, n |-> n - SEED_LEN]>>

\* len(data)
RECURSIVE ByteLen(_)
ByteLen(data) == IF data = <<>> THEN 0 ELSE data[1].n + ByteLen(Tail(data))

\* data[:k]
RECURSIVE Slice(_, _)
Slice(data, k) ==
    IF data = <<>> \/ k <= 0 THEN <<>>
    ELSE IF data[1].n >= k THEN <<[b |-> data[1].b, n |-> k]>>
    ELSE <<data[1]>> \o Slice(Tail(data), k - data[1].n)

KeyIds == {None, Some("abc")}

KeyBlobs == {None, Some(Blob(SEED_LEN - 1, 0)), Some(Blob(SEED_LEN, 0)), Some(Blob(SEED_LEN + 1, 9))}

\* The environments the executor is exercised in: <<key id, key blob>>
Envs ==
    {<<Some("abc"), Some(Blob(SEED_LEN, 0))>>,
     <<None, Some(Blob(SEED_LEN + 1, 9))>>,
     <<Some("abc"), None>>,
     <<Some("abc"), Some(Blob(SEED_LEN - 1, 0))>>}

----------------------------------------------------------------------------
(* auth/jwt_generator.py *)

\* The verb taken as the caller wrote it
upper_skipped(m) == m

\* str.upper() on the verbs a caller may pass
upper(m) ==
    CASE m = "get" -> "GET"
      [] m = "post" -> "POST"
      [] m = "put" -> "PUT"
      [] m = "delete" -> "DELETE"
      [] OTHER -> m

\* json.dumps(obj).encode(): the compact text of a JSON object
json_dumps(obj) == [json |-> obj]

\* base64.urlsafe_b64encode(data).rstrip(b"=").decode(): text over the URL-safe
\* alphabet, which holds no "." and, after rstrip, no "="
base64url_encode(data) == [b64 |-> data]

\* data[k:]
RECURSIVE Drop(_, _)
Drop(data, k) ==
    IF data = <<>> \/ k <= 0 THEN data
    ELSE IF data[1].n > k THEN <<[b |-> data[1].b, n |-> data[1].n - k]>> \o Tail(data)
    ELSE Drop(Tail(data), k - data[1].n)

\* A seed taken from the end of the blob: base64.b64decode(...)[-32:]
key_bytes_from_end(key) ==
    IF key = None THEN [raised |-> "TypeError"]
    ELSE [bytes |-> Drop(key.some, ByteLen(key.some) - SEED_LEN)]

\* base64.b64decode(PRIVATE_KEY_BASE64)[:32]; b64decode(None) raises TypeError
key_bytes(key) ==
    IF key = None THEN [raised |-> "TypeError"]
    ELSE [bytes |-> Slice(key.some, SEED_LEN)]

\* SigningKey(seed).sign(msg).signature: Ed25519 is deterministic in seed and message
sign(seed, msg) == [signed_by |-> seed, over |-> msg]

\* f"{a}.{b}...": the pieces joined by "."
RECURSIVE join_dot(_)
join_dot(parts) ==
    IF Len(parts) = 0 THEN <<>>
    ELSE IF Len(parts) = 1 THEN <<parts[1]>>
    ELSE <<parts[1], Lit(".")>> \o join_dot(Tail(parts))

\* A minter that adds a token identifier to the claim set
build_jwt_with_jti(m, p, host, now, nonce) ==
    LET uri        == <<Lit(upper(m)), Lit(" "), Lit(host), Lit(p)>>
        header     == [alg |-> "EdDSA", kid |-> KEY_ID, nonce |-> nonce, typ |-> "JWT"]
        payload    == [iss |-> "cdp", sub |-> KEY_ID, nbf |-> now,
                       exp |-> now + TOKEN_TTL, uri |-> uri, jti |-> nonce]
        header_b64  == base64url_encode(json_dumps(header))
        payload_b64 == base64url_encode(json_dumps(payload))
        signing_input == join_dot(<<header_b64, payload_b64>>)
        kb         == key_bytes(PRIVATE_KEY_BASE64)
    IN  IF "raised" \in DOMAIN kb THEN kb
        ELSE IF ByteLen(kb.bytes) # SEED_LEN THEN [raised |-> "ValueError"]
        ELSE [token |-> join_dot(<<header_b64, payload_b64,
                                   base64url_encode(sign(kb.bytes, signing_input))>>)]

\* A minter that puts the same nonce into every header
build_jwt_fixed_nonce(m, p, host, now, nonce) ==
    LET uri        == <<Lit(upper(m)), Lit(" "), Lit(host), Lit(p)>>
        header     == [alg |-> "EdDSA", kid |-> KEY_ID, nonce |-> "00", typ |-> "JWT"]
        payload    == [iss |-> "cdp", sub |-> KEY_ID, nbf |-> now,
                       exp |-> now + TOKEN_TTL, uri |-> uri]
        header_b64  == base64url_encode(json_dumps(header))
        payload_b64 == base64url_encode(json_dumps(payload))
        signing_input == join_dot(<<header_b64, payload_b64>>)
        kb         == key_bytes(PRIVATE_KEY_BASE64)
    IN  IF "raised" \in DOMAIN kb THEN kb
        ELSE IF ByteLen(kb.bytes) # SEED_LEN THEN [raised |-> "ValueError"]
        ELSE [token |-> join_dot(<<header_b64, payload_b64,
                                   base64url_encode(sign(kb.bytes, signing_input))>>)]

\* json.dumps(obj, indent=2): the same object, laid out over several lines
json_dumps_indent(obj) == [json |-> obj, indent |-> 2]

\* What build_jwt(method, path, host) writes with print() before it returns the
\* token: a banner, the header and the payload; a call that raises has not yet
\* written anything
printed(m, p, host, now, nonce) ==
    LET uri     == <<Lit(upper(m)), Lit(" "), Lit(host), Lit(p)>>
        header  == [alg |-> "EdDSA", kid |-> KEY_ID, nonce |-> nonce, typ |-> "JWT"]
        payload == [iss |-> "cdp", sub |-> KEY_ID, nbf |-> now,
                    exp |-> now + TOKEN_TTL, uri |-> uri]
        kb      == key_bytes(PRIVATE_KEY_BASE64)
    IN  IF "raised" \in DOMAIN kb \/ ByteLen(kb.bytes) # SEED_LEN THEN <<>>
        ELSE << <<Lit("[JWT Created: Coinbase Compatible - Raw Key ID Mode]")>>,
                <<Lit("Header:"), Lit(" "), json_dumps_indent(header)>>,
                <<Lit("Payload:"), Lit(" "), json_dumps_indent(payload)>> >>

\* build_jwt(method, path, host) at clock reading `now` (whole epoch seconds, from
\* int(time.time())) with `nonce` the value of secrets.token_hex(16).
\* Gives [token |-> t] or [raised |-> exception].
build_jwt(m, p, host, now, nonce) ==
    LET uri        == <<Lit(upper(m)), Lit(" "), Lit(host), Lit(p)>>
        header     == [alg |-> "EdDSA", kid |-> KEY_ID, nonce |-> nonce, typ |-> "JWT"]
        payload    == [iss |-> "cdp", sub |-> KEY_ID, nbf |-> now,
                       exp |-> now + TOKEN_TTL, uri |-> uri]
        header_b64  == base64url_encode(json_dumps(header))
        payload_b64 == base64url_encode(json_dumps(payload))
        signing_input == join_dot(<<header_b64, payload_b64>>)
        kb         == key_bytes(PRIVATE_KEY_BASE64)
    IN  IF "raised" \in DOMAIN kb THEN kb
        ELSE IF ByteLen(kb.bytes) # SEED_LEN THEN [raised |-> "ValueError"]
        ELSE [token |-> join_dot(<<header_b64, payload_b64,
                                   base64url_encode(sign(kb.bytes, signing_input))>>)]

----------------------------------------------------------------------------
(* core/coinbase_requests_client.py: headers *)

HOST == "api.coinbase.com"

\* Headers whose Authorization value lacks the "Bearer " scheme
_headers_no_scheme(m, p, now, nonce) ==
    LET jwt == build_jwt(m, p, HOST, now, nonce)
    IN  IF "raised" \in DOMAIN jwt THEN jwt
        ELSE [dict |-> ("Authorization" :> jwt.token)
                       @@ ("Content-Type" :> <<Lit("application/json")>>),
              jwt  |-> jwt.token]

\* _headers(method, path): mints a token, or lets build_jwt's exception through
\* (mint inputs now, nonce are those build_jwt draws)
_headers(m, p, now, nonce) ==
    LET jwt == build_jwt(m, p, HOST, now, nonce)
    IN  IF "raised" \in DOMAIN jwt THEN jwt
        ELSE [dict |-> ("Authorization" :> (<<Lit("Bearer ")>> \o jwt.token))
                       @@ ("Content-Type" :> <<Lit("application/json")>>),
              jwt  |-> jwt.token]

\* _public_headers()
_public_headers ==
    [dict |-> ("Content-Type" :> <<Lit("application/json")>>)
              @@ ("Cache-Control" :> <<Lit("no-cache")>>)]

----------------------------------------------------------------------------
(* The transport: what one attempt of session.<verb> may meet *)

\* Response bodies the server may send
JsonTable == ("{\"ok\": true}" :> [ok |-> TRUE])

Texts == {"", "<html>"} \cup DOMAIN JsonTable

Statuses == {200, 404, 413} \cup STATUS_FORCELIST

\* The largest Retry-After value, in seconds, a response of the model carries
MaxRetryAfter == 1

\* Retry-After header of a response, in seconds; 0 stands for no header
RetryAfterValues(status) ==
    IF status \in {404, 413, 503} THEN 0..MaxRetryAfter ELSE {0}

\* connect_error: the connection could not be opened (urllib3 NewConnectionError),
\* the request never left.  read_error: the connection broke after the request
\* was written (urllib3 ProtocolError).
Answers ==
    {[kind |-> "response", status |-> st, retry_after |-> ra, text |-> t] :
        st \in Statuses, ra \in 0..MaxRetryAfter, t \in Texts}
    \cup {[kind |-> "connect_error"], [kind |-> "read_error"]}

UsedAnswers ==
    {a \in Answers : a.kind = "response" => a.retry_after \in RetryAfterValues(a.status)}

\* What the log keeps of an answer (the body of a retried response is drained unread)
Seen(a) ==
    IF a.kind = "response"
    THEN [kind |-> "response", status |-> a.status, retry_after |-> a.retry_after]
    ELSE a

----------------------------------------------------------------------------
(* The session's retry policy: urllib3 Retry as configured at lines 11-14 *)

\* Retry(total=3, backoff_factor=0.3, status_forcelist=[...]) as handed to each send
NewRetry == [total |-> RETRY_TOTAL, history |-> <<>>]

\* A policy built with allowed_methods=None: every verb is retried
is_method_retryable_any(m) == TRUE

\* Retry._is_method_retryable
is_method_retryable(m) == upper(m) \in ALLOWED_METHODS

\* Retry.is_retry(method, status_code, has_retry_after)
is_retry(r, m, status, has_retry_after) ==
    /\ is_method_retryable(m)
    /\ \/ status \in STATUS_FORCELIST
       \/ r.total # 0 /\ has_retry_after /\ status \in RETRY_AFTER_STATUS_CODES

\* Retry.increment: one retry less, one history entry more
increment(r, entry) == [total |-> r.total - 1, history |-> Append(r.history, entry)]

\* A retry budget that allows one retry too many
is_exhausted_late(r) == r.total < -1

\* Retry.is_exhausted
is_exhausted(r) == r.total < 0

\* A policy built without backoff_factor: no sleep between attempts
get_backoff_time_none(r) == 0

\* A backoff that also sleeps after the first failure
get_backoff_time_no_skip(r) == BACKOFF_FACTOR * (2 ^ (Len(r.history) - 1))

\* Retry.get_backoff_time, in tenths of a second (DEFAULT_BACKOFF_MAX is 120 s)
get_backoff_time(r) ==
    LET n == Len(r.history)
        b == BACKOFF_FACTOR * (2 ^ (n - 1))
    IN  IF n <= 1 THEN 0 ELSE IF b > 1200 THEN 1200 ELSE b

\* Retry.sleep(response): the Retry-After header if the response has one, else backoff
sleep_time(r, a) ==
    IF a.kind = "response" /\ a.retry_after > 0 THEN 10 * a.retry_after
    ELSE get_backoff_time(r)

\* HTTPConnectionPool.urlopen on one answer: "retry" with the new Retry and the
\* delay to sleep, "response" (hand the response back), or "raise"
urlopen_step(r, m, a) ==
    IF a.kind = "connect_error" THEN
        IF is_exhausted(increment(r, Seen(a)))
        THEN [do |-> "raise", exc |-> "ConnectionError"]
        ELSE [do |-> "retry", retries |-> increment(r, Seen(a)),
              delay |-> sleep_time(increment(r, Seen(a)), a)]
    ELSE IF a.kind = "read_error" THEN
        IF ~is_method_retryable(m) \/ is_exhausted(increment(r, Seen(a)))
        THEN [do |-> "raise", exc |-> "ConnectionError"]
        ELSE [do |-> "retry", retries |-> increment(r, Seen(a)),
              delay |-> sleep_time(increment(r, Seen(a)), a)]
    ELSE IF is_retry(r, m, a.status, a.retry_after > 0) THEN
        IF is_exhausted(increment(r, Seen(a)))
        THEN [do |-> "raise", exc |-> "RetryError"]
        ELSE [do |-> "retry", retries |-> increment(r, Seen(a)),
              delay |-> sleep_time(increment(r, Seen(a)), a)]
    ELSE [do |-> "response"]

----------------------------------------------------------------------------
(* core/coinbase_requests_client.py: the executor *)

\* str(e) of the HTTPError raise_for_status builds
http_error_text(status, u) ==
    <<Lit(status), Lit(IF status < 500 THEN " Client Error: " ELSE " Server Error: "),
      Lit(" for url: "), Lit(u)>>

\* response.json()
response_json(text) ==
    IF text \in DOMAIN JsonTable THEN [value |-> JsonTable[text]]
    ELSE [raised |-> "JSONDecodeError"]

\* The try/except of _get, _post, _put, _delete on the response session.<verb>
\* returned: raise_for_status, json(), except HTTPError
normalize(a, u) ==
    IF a.status >= 400 /\ a.status < 600
    THEN [returned |-> [error |-> http_error_text(a.status, u),
                        status_code |-> a.status, body |-> a.text]]
    ELSE IF "raised" \in DOMAIN response_json(a.text)
    THEN response_json(a.text)
    ELSE [returned |-> response_json(a.text).value]

\* <<url, path>> as the endpoint wrappers pass them: private under BASE_URL,
\* public under PUBLIC_BASE_URL
PrivateEndpoints == {<<BASE_URL \o "/orders", "/api/v3/brokerage/orders">>}

PublicEndpoints == {<<PUBLIC_BASE_URL \o "/products", "/api/v3/brokerage/market/products">>}

Nonces == {"0f", "a7"}

Times == {1700000000}

\* The threads that call the executor
Threads == {"t1", "t2"}

Init ==
    /\ \E env \in Envs : KEY_ID = env[1] /\ PRIVATE_KEY_BASE64 = env[2]
    /\ pc = "idle"
    /\ method = "GET"
    /\ is_public = FALSE
    /\ url = ""
    /\ path = ""
    /\ headers = None
    /\ retries = NewRetry
    /\ sent = <<>>
    /\ slept = <<>>
    /\ answers = <<>>
    /\ minted = <<>>
    /\ response = None
    /\ outcome = None
    /\ mints = <<>>
    /\ stdout = <<>>
    /\ la = [pc |-> "idle"]
    /\ fetches = <<>>
    /\ tool = [pc |-> "idle"]
    /\ core_calls = <<>>
    /\ calls = [t \in Threads |-> [pc |-> "idle", n |-> 0]]
    /\ wire = {}

\* The first line of an executor function: build the headers, then enter
\* session.<verb>; an exception of build_jwt ends the call before any request
Begin(m, pub, u, p, now, nonce) ==
    LET h == IF pub THEN _public_headers ELSE _headers(m, p, now, nonce)
    IN  /\ pc = "idle"
        /\ method' = m
        /\ is_public' = pub
        /\ url' = u
        /\ path' = p
        /\ retries' = NewRetry
        /\ sent' = <<>>
        /\ slept' = <<>>
        /\ answers' = <<>>
        /\ response' = None
        /\ IF "raised" \in DOMAIN h
           THEN /\ pc' = "done"
                /\ headers' = None
                /\ minted' = <<>>
                /\ outcome' = h
           ELSE /\ pc' = "sending"
                /\ headers' = h.dict
                /\ minted' = IF pub THEN <<>> ELSE <<h.jwt>>
                /\ outcome' = None
        /\ UNCHANGED <<KEY_ID, PRIVATE_KEY_BASE64, otherVars>>

_get ==
    \E pub \in BOOLEAN, now \in Times, nonce \in Nonces :
        \E e \in IF pub THEN PublicEndpoints ELSE PrivateEndpoints :
            Begin("GET", pub, e[1], e[2], now, nonce)

_post ==
    \E e \in PrivateEndpoints, now \in Times, nonce \in Nonces :
        Begin("POST", FALSE, e[1], e[2], now, nonce)

_put ==
    \E e \in PrivateEndpoints, now \in Times, nonce \in Nonces :
        Begin("PUT", FALSE, e[1], e[2], now, nonce)

_delete ==
    \E e \in PrivateEndpoints, now \in Times, nonce \in Nonces :
        Begin("DELETE", FALSE, e[1], e[2], now, nonce)

\* One attempt inside session.<verb>: the request goes out with the call's headers,
\* the transport answers, and urllib3 retries, hands the response to the
\* executor's try/except, or raises
AttemptOn(transport) ==
    \E a \in transport :
        LET step == urlopen_step(retries, method, a)
        IN  /\ pc = "sending"
            /\ sent' = Append(sent, [method |-> method, url |-> url, headers |-> headers])
            /\ answers' = Append(answers, Seen(a))
            /\ IF step.do = "retry"
               THEN /\ retries' = step.retries
                    /\ slept' = Append(slept, step.delay)
                    /\ pc' = "sending"
                    /\ response' = response
                    /\ outcome' = outcome
               ELSE /\ retries' = retries
                    /\ slept' = slept
                    /\ pc' = "done"
                    /\ response' = IF step.do = "raise" THEN None ELSE Some(a)
                    /\ outcome' = IF step.do = "raise" THEN [raised |-> step.exc]
                                  ELSE normalize(a, url)
            /\ UNCHANGED <<KEY_ID, PRIVATE_KEY_BASE64, method, is_public, url, path,
                           headers, minted, otherVars>>

\* An attempt against a transport that may answer anything
Attempt == AttemptOn(UsedAnswers)

\* An executor function that resets the module's key id when it returns
Return_forgetting_key_id ==
    /\ pc = "done"
    /\ pc' = "idle"
    /\ method' = "GET"
    /\ is_public' = FALSE
    /\ url' = ""
    /\ path' = ""
    /\ headers' = None
    /\ retries' = NewRetry
    /\ sent' = <<>>
    /\ slept' = <<>>
    /\ answers' = <<>>
    /\ minted' = <<>>
    /\ response' = None
    /\ outcome' = None
    /\ KEY_ID' = None
    /\ UNCHANGED <<PRIVATE_KEY_BASE64, otherVars>>

\* The executor function returns (or its exception leaves it): the caller takes
\* the outcome, and nothing of the call stays behind in the module
Return ==
    /\ pc = "done"
    /\ pc' = "idle"
    /\ method' = "GET"
    /\ is_public' = FALSE
    /\ url' = ""
    /\ path' = ""
    /\ headers' = None
    /\ retries' = NewRetry
    /\ sent' = <<>>
    /\ slept' = <<>>
    /\ answers' = <<>>
    /\ minted' = <<>>
    /\ response' = None
    /\ outcome' = None
    /\ UNCHANGED <<KEY_ID, PRIVATE_KEY_BASE64, otherVars>>

Next == _get \/ _post \/ _put \/ _delete \/ Attempt \/ Return

Spec == Init /\ [][Next]_vars

----------------------------------------------------------------------------
(* Properties of the executor *)

\* The attempts of the call so far all ended in a response
AllResponses == \A i \in 1..Len(answers) : answers[i].kind = "response"

\* The attempts of the call so far all ended in a connection failure
AllConnectionFailures ==
    \A i \in 1..Len(answers) : answers[i].kind \in {"connect_error", "read_error"}

\* The call returned an error record {error, status_code, body} for its last response
ReturnedErrorRecord ==
    /\ "returned" \in DOMAIN outcome
    /\ DOMAIN outcome.returned = {"error", "status_code", "body"}
    /\ response # None
    /\ outcome.returned.status_code = response.some.status
    /\ outcome.returned.body = response.some.text
    /\ outcome.returned.error = http_error_text(response.some.status, url)

\* C1: a call whose attempts all ended in a status of the force list returns,
\* once it is over, an error record with the error text, the status code and
\* the raw body; it does not raise.
C1_ExhaustedRetriesReturnErrorRecord ==
    (/\ pc = "done"
     /\ Len(answers) >= 1
     /\ \A i \in 1..Len(answers) :
            answers[i].kind = "response" /\ answers[i].status \in STATUS_FORCELIST)
    => ReturnedErrorRecord

\* C2: a call whose attempts all met a connection failure ends by returning a
\* value, never by raising.
C2_TransportFailureReturnsOutcome ==
    (pc = "done" /\ Len(answers) >= 1 /\ AllConnectionFailures)
    => "returned" \in DOMAIN outcome

\* C3: a call whose final response is 2xx with a body that is not JSON (the empty
\* body included) returns a value; it does not raise.
C3_UndecodableBodyReturnsOutcome ==
    (/\ pc = "done"
     /\ response # None
     /\ response.some.status \in 200..299
     /\ response.some.text \notin DOMAIN JsonTable)
    => "returned" \in DOMAIN outcome

\* C4 as stated: a call never puts more than 3 requests on the wire.
C4_AtMostThreeAttempts == Len(sent) <= 3

\* C4 amended: a call never puts more than 1 + total = 4 requests on the wire
\* (the first attempt and the 3 retries Retry(total=3) allows).
C4_AtMostFourAttempts == Len(sent) <= RETRY_TOTAL + 1

\* A call that used every retry: four requests sent, all answered by 503
C4_Witness ==
    /\ pc = "done"
    /\ Len(sent) = RETRY_TOTAL + 1
    /\ \A i \in 1..Len(answers) : answers[i].kind = "response" /\ answers[i].status = 503

\* The responses so far carried no Retry-After header
NoRetryAfter ==
    \A i \in 1..Len(answers) : answers[i].kind = "response" => answers[i].retry_after = 0

\* The transport answered along `script` (a sequence of statuses) as far as the
\* call asked it
Followed(script) ==
    /\ Len(answers) >= 1
    /\ Len(answers) <= Len(script)
    /\ \A i \in 1..Len(answers) :
           answers[i].kind = "response" /\ answers[i].status = script[i]

\* The call returned the decoded body of a 200 response, after exactly 3
\* requests, having slept longer before the third than before the second
ThirdTimeLucky ==
    /\ Len(sent) = 3
    /\ response # None
    /\ response.some.status = 200
    /\ outcome = [returned |-> JsonTable[response.some.text]]
    /\ Len(slept) = 2
    /\ slept[2] > slept[1]

\* The transport plays 503, 503, 200 (no Retry-After, a JSON body on the 200)
Script503_503_200 ==
    /\ pc = "done"
    /\ Followed(<<503, 503, 200>>)
    /\ NoRetryAfter
    /\ (response # None /\ response.some.status = 200)
           => response.some.text \in DOMAIN JsonTable

\* C5 as stated: against a transport that plays 503, 503, 200 every executor
\* call returns the decoded 200 body after exactly 3 requests, with a longer
\* delay before the third than before the second.
C5_AnyVerbThirdTimeLucky == Script503_503_200 => ThirdTimeLucky

\* C5 amended: the same for the calls of _get, _put and _delete.
C5_IdempotentVerbThirdTimeLucky ==
    (Script503_503_200 /\ method \in {"GET", "PUT", "DELETE"}) => ThirdTimeLucky

\* A PUT that met 503, 503, 200 and returned the body
C5_Witness ==
    /\ Script503_503_200
    /\ method = "PUT"
    /\ Len(answers) = 3
    /\ slept = <<0, 6>>
    /\ "returned" \in DOMAIN outcome

\* Every attempt of the call was answered by a 4xx status other than 429
OnlyClientErrors ==
    /\ Len(answers) >= 1
    /\ \A i \in 1..Len(answers) :
           /\ answers[i].kind = "response"
           /\ answers[i].status \in (400..499) \ {429}

\* C6 as stated: a call answered by 4xx statuses other than 429 makes exactly
\* one attempt and returns the error record of that response.
C6_ClientErrorOneAttempt ==
    (pc = "done" /\ OnlyClientErrors) => (Len(sent) = 1 /\ ReturnedErrorRecord)

\* C6 amended: the same, unless the response is a 413 that carries a
\* Retry-After header.
C6_ClientErrorWithoutRetryAfter413 ==
    (/\ pc = "done"
     /\ OnlyClientErrors
     /\ \A i \in 1..Len(answers) :
            ~(answers[i].status = 413 /\ answers[i].retry_after > 0))
    => (Len(sent) = 1 /\ ReturnedErrorRecord)

\* A GET answered 404 with a Retry-After header: one attempt, error record
C6_Witness ==
    /\ pc = "done"
    /\ method = "GET"
    /\ answers = <<[kind |-> "response", status |-> 404, retry_after |-> 1]>>
    /\ Len(sent) = 1
    /\ ReturnedErrorRecord

\* The answer to the attempt a step has just made
LastAnswer(log) == log[Len(log)]

\* A status of the force list, or a connection failure
RetryableByStatusOrFailure(a) ==
    a.kind # "response" \/ a.status \in {429, 500, 502, 503, 504}

\* What the configured policy retries: a connection that could not be opened,
\* for any verb; for GET, PUT and DELETE also a broken connection, a status of
\* the force list, and a 413, 429 or 503 that carries Retry-After
RetryableForVerb(m, a) ==
    \/ a.kind = "connect_error"
    \/ /\ m \in {"GET", "PUT", "DELETE"}
       /\ \/ a.kind = "read_error"
          \/ /\ a.kind = "response"
             /\ \/ a.status \in {429, 500, 502, 503, 504}
                \/ a.status \in {413, 429, 503} /\ a.retry_after > 0

\* C7 as stated: an attempt is followed by a retry exactly when retries remain
\* and it ended in a status of the force list or in a connection failure,
\* whatever the verb.  (Stated for the answers that carry no Retry-After
\* header, of which the claim says nothing.)
C7_RetryRuleIgnoresVerb ==
    [][(pc = "sending" /\ Len(answers') = Len(answers) + 1 /\ NoRetryAfter')
        => ((pc' = "sending")
            <=> (retries.total > 0 /\ RetryableByStatusOrFailure(LastAnswer(answers'))))]_vars

\* C7 amended: an attempt is followed by a retry exactly when retries remain
\* and the policy retries its ending for the call's verb (POST only when the
\* connection could not be opened).
C7_RetryRuleByVerb ==
    [][(pc = "sending" /\ Len(answers') = Len(answers) + 1)
        => ((pc' = "sending")
            <=> (retries.total > 0 /\ RetryableForVerb(method, LastAnswer(answers'))))]_vars

\* A POST retried after a failed connect, then answered 503 and not retried
C7_Witness ==
    /\ pc = "done"
    /\ method = "POST"
    /\ answers = <<[kind |-> "connect_error"],
                   [kind |-> "response", status |-> 503, retry_after |-> 0]>>
    /\ Len(sent) = 2
    /\ ReturnedErrorRecord

IsBearerToken(text) ==
    /\ Len(text) = 6
    /\ text[1] = Lit("Bearer ")
    /\ text[3] = Lit(".")
    /\ text[5] = Lit(".")
    /\ \A i \in {2, 4, 6} : DOMAIN text[i] = {"b64"}

BadKeyConfiguration ==
    \/ KEY_ID = None
    \/ PRIVATE_KEY_BASE64 = None
    \/ ByteLen(Slice(PRIVATE_KEY_BASE64.some, 32)) # 32

\* C10: with the key id or the key absent, or a key that is not 32 bytes after
\* truncation, a private call ends in build_jwt's exception: no token is
\* returned and nothing is sent.
C10_BadConfigurationFailsAtMint ==
    (pc # "idle" /\ ~is_public /\ BadKeyConfiguration)
    => (minted = <<>> /\ sent = <<>> /\ "raised" \in DOMAIN outcome)

\* Attempt i of the call put its request on the wire: the connection was opened
\* (a response came back, or the connection broke after the request was written)
Transmitted(i) == answers[i].kind # "connect_error"

\* C11 as stated: each minted credential accompanies at most one transmission,
\* retry attempts included: no two transmitted requests of a private call carry
\* the same credential.
C11_OneTransmissionPerCredential ==
    ~is_public =>
        \A i, j \in 1..Len(sent) :
            (i # j /\ Transmitted(i) /\ Transmitted(j))
            => sent[i].headers["Authorization"] # sent[j].headers["Authorization"]

\* C11 amended: a private call mints exactly one credential, and every request
\* the call attempts, the first and each retry, carries that one credential.
C11_OneCredentialPerCall ==
    (~is_public /\ sent # <<>>) =>
        /\ Len(minted) = 1
        /\ \A i \in 1..Len(sent) :
              sent[i].headers["Authorization"] = <<Lit("Bearer ")>> \o minted[1]

\* A private call whose first request reached the server and that sent a second
C11_Witness ==
    /\ ~is_public
    /\ Len(sent) >= 2
    /\ Transmitted(1)
    /\ Transmitted(2)

\* C27: a POST that has reached the server is not sent again: in a POST call,
\* an attempt that was transmitted (answered by a response, or broken off while
\* the answer was read) is the last attempt of the call, whatever the status.
C27_PostNotResent ==
    (pc # "idle" /\ method = "POST") =>
        \A i \in 1..Len(answers) :
            Transmitted(i) => (i = Len(answers) /\ pc = "done")

\* A POST call has ended on its first attempt, answered 503 with Retry-After
C27_Witness ==
    /\ pc = "done"
    /\ method = "POST"
    /\ Len(sent) = 1
    /\ answers = <<[kind |-> "response", status |-> 503, retry_after |-> 1]>>

\* C30: no step of a mint or of an executor call changes the key id or the key
\* material of the module, and the session's retry configuration is the same
\* for every call: each call starts from the policy built at load.
C30_ConfigurationUnchanged ==
    [][/\ KEY_ID' = KEY_ID
       /\ PRIVATE_KEY_BASE64' = PRIVATE_KEY_BASE64
       /\ (pc = "idle" /\ pc' # "idle") => retries' = NewRetry
       /\ pc' = "idle" => retries' = NewRetry]_vars

\* A private call has ended after it minted a token and used up retries of the
\* policy
C30_Witness ==
    /\ pc = "done"
    /\ Len(minted) = 1
    /\ retries.total < RETRY_TOTAL
    /\ KEY_ID = Some("abc")

----------------------------------------------------------------------------
(* auth/jwt_generator.py exercised on its own: direct calls of build_jwt *)

\* Calls of build_jwt in one run
MaxMints == 2

\* Seconds the clock may have advanced past the first reading
MaxTick == 1

\* The method argument, in either letter case
MintMethods == {"get", "GET"}

\* The path argument: the default of build_jwt, and another
MintPaths == {"/api/v3/brokerage/accounts", "/x"}

\* The host argument: the default of build_jwt
MintHosts == {HOST}

\* time.time(): a float, here whole seconds and tenths
ClockReadings ==
    {[sec |-> 1700000000 + d, tenths |-> f] : d \in 0..MaxTick, f \in {0, 9}}

\* int(t) of a non-negative float
int(t) == t.sec

\* The values secrets.token_hex(16) may give: 32 hex characters, abbreviated
NonceSource == {"0f", "a7", "c3"}

\* secrets.token_hex(16) after the draws in `drawn`: 128 bits from the system's
\* CSPRNG, taken as a value that was not drawn before
token_hex(drawn) == NonceSource \ drawn

\* The nonces drawn by the calls so far
Drawn == {mints[i].nonce : i \in 1..Len(mints)}

\* No executor call in progress
ExecutorIdle ==
    /\ pc = "idle"
    /\ method = "GET"
    /\ is_public = FALSE
    /\ url = ""
    /\ path = ""
    /\ headers = None
    /\ retries = NewRetry
    /\ sent = <<>>
    /\ slept = <<>>
    /\ answers = <<>>
    /\ minted = <<>>
    /\ response = None
    /\ outcome = None

\* No list_accounts in progress
PageIdle ==
    /\ la = [pc |-> "idle"]
    /\ fetches = <<>>

\* No tool invocation in progress, no thread in a call
ToolIdle ==
    /\ tool = [pc |-> "idle"]
    /\ core_calls = <<>>
    /\ calls = [t \in Threads |-> [pc |-> "idle", n |-> 0]]
    /\ wire = {}

MintInit ==
    /\ \E env \in Envs : KEY_ID = env[1] /\ PRIVATE_KEY_BASE64 = env[2]
    /\ ExecutorIdle
    /\ mints = <<>>
    /\ stdout = <<>>
    /\ PageIdle
    /\ ToolIdle

\* One call build_jwt(m, p, host): lines 36-37 read the clock and draw the nonce
Mint ==
    \E m \in MintMethods, p \in MintPaths, host \in MintHosts, t \in ClockReadings :
        \E nonce \in token_hex(Drawn) :
            /\ Len(mints) < MaxMints
            /\ mints' = Append(mints,
                   [method |-> m, path |-> p, host |-> host, time |-> t,
                    nonce |-> nonce, result |-> build_jwt(m, p, host, int(t), nonce)])
            /\ stdout' = stdout \o printed(m, p, host, int(t), nonce)
            /\ UNCHANGED <<KEY_ID, PRIVATE_KEY_BASE64, executorVars, pageVars, toolVars,
                           concVars>>

MintNext == Mint

SpecMint == MintInit /\ [][MintNext]_vars

----------------------------------------------------------------------------
(* Properties of the minter *)

\* Call i of build_jwt returned a token
Returned(i) == "token" \in DOMAIN mints[i].result

\* The header and the claim set of a token: its first and second
\* dot-separated segments, base64url-decoded and parsed as JSON
header_of(token) == token[1].b64.json

claims_of(token) == token[3].b64.json

\* C12: every token build_jwt returns has exp - nbf = 120, and nbf is the clock
\* reading of the mint cut to whole epoch seconds.
C12_ValidityWindow ==
    \A i \in 1..Len(mints) :
        Returned(i) =>
            LET c == claims_of(mints[i].result.token)
            IN  /\ c.exp - c.nbf = 120
                /\ c.nbf = mints[i].time.sec

\* A token minted at a clock reading that is not on a whole second
C12_Witness ==
    \E i \in 1..Len(mints) : Returned(i) /\ mints[i].time.tenths = 9

\* C13: two consecutive calls of build_jwt return different credentials, whose
\* nonces or nbf/exp values differ, and no two credentials minted in the same
\* second carry the same nonce.
C13_ConsecutiveMintsDiffer ==
    /\ \A i \in 1..(Len(mints) - 1) :
          (Returned(i) /\ Returned(i + 1)) =>
              LET a == mints[i].result.token
                  b == mints[i + 1].result.token
              IN  /\ a # b
                  /\ \/ header_of(a).nonce # header_of(b).nonce
                     \/ claims_of(a).nbf # claims_of(b).nbf
                     \/ claims_of(a).exp # claims_of(b).exp
    /\ \A i, j \in 1..Len(mints) :
          (i # j /\ Returned(i) /\ Returned(j)
           /\ claims_of(mints[i].result.token).nbf = claims_of(mints[j].result.token).nbf)
          => header_of(mints[i].result.token).nonce
             # header_of(mints[j].result.token).nonce

\* Two consecutive tokens for the same method, path and host, minted in the
\* same second
C13_Witness ==
    \E i \in 1..(Len(mints) - 1) :
        /\ Returned(i)
        /\ Returned(i + 1)
        /\ mints[i].method = mints[i + 1].method
        /\ mints[i].path = mints[i + 1].path
        /\ mints[i].host = mints[i + 1].host
        /\ mints[i].time.sec = mints[i + 1].time.sec

\* The upper-case spelling of each verb spelling a caller may pass
UpperCased == ("get" :> "GET") @@ ("GET" :> "GET")

\* C14: the uri claim of every token is the upper-cased method, a space, the
\* host and the path; calls that differ only in the letter case of the method
\* get the same uri claim.
C14_UriClaim ==
    /\ \A i \in 1..Len(mints) :
          Returned(i) =>
              claims_of(mints[i].result.token).uri
              = <<Lit(UpperCased[mints[i].method]), Lit(" "),
                  Lit(mints[i].host), Lit(mints[i].path)>>
    /\ \A i, j \in 1..Len(mints) :
          (Returned(i) /\ Returned(j)
           /\ UpperCased[mints[i].method] = UpperCased[mints[j].method]
           /\ mints[i].host = mints[j].host
           /\ mints[i].path = mints[j].path)
          => claims_of(mints[i].result.token).uri
             = claims_of(mints[j].result.token).uri

\* Tokens for "get" and for "GET" on the same host and path
C14_Witness ==
    \E i, j \in 1..Len(mints) :
        /\ Returned(i)
        /\ Returned(j)
        /\ mints[i].method = "get"
        /\ mints[j].method = "GET"
        /\ mints[i].host = mints[j].host
        /\ mints[i].path = mints[j].path

\* C21 as stated: build_jwt performs no I/O: whatever calls were made, nothing
\* has been written to standard output.
C21_BuildJwtWritesNothing ==
    stdout = <<>>

\* C22: every token build_jwt returns has three segments; the first decodes to
\* an object with exactly the keys alg, kid, nonce, typ (alg "EdDSA", typ "JWT",
\* nonce the value token_hex(16) gave), the second to an object with exactly the
\* keys iss, sub, nbf, exp, uri (iss "cdp", sub and kid both the key id, null
\* when the key id is not set).
C22_ExactFields ==
    \A i \in 1..Len(mints) :
        Returned(i) =>
            LET t == mints[i].result.token
                h == header_of(t)
                c == claims_of(t)
            IN  /\ Len(t) = 5 /\ t[2] = Lit(".") /\ t[4] = Lit(".")
                /\ DOMAIN h = {"alg", "kid", "nonce", "typ"}
                /\ h.alg = "EdDSA" /\ h.typ = "JWT"
                /\ h.nonce = mints[i].nonce /\ h.nonce \in NonceSource
                /\ DOMAIN c = {"iss", "sub", "nbf", "exp", "uri"}
                /\ c.iss = "cdp"
                /\ c.sub = h.kid /\ h.kid = KEY_ID

\* Tokens were returned under the key id "abc", up to the last call the model
\* makes
C22_Witness ==
    /\ KEY_ID = Some("abc")
    /\ Len(mints) = MaxMints
    /\ \A i \in 1..Len(mints) : Returned(i)

\* The seed a token was signed with
seed_of(token) == token[5].b64.signed_by

\* C25: every token is signed with the first 32 bytes of the decoded key blob;
\* a blob that is longer gives the same seed as its first 32 bytes alone, so
\* that the bytes after the 32nd do not reach the signature.
C25_SeedIsFirst32Bytes ==
    \A i \in 1..Len(mints) :
        Returned(i) =>
            /\ ByteLen(PRIVATE_KEY_BASE64.some) >= 32
            /\ ByteLen(seed_of(mints[i].result.token)) = 32
            /\ seed_of(mints[i].result.token) = Slice(PRIVATE_KEY_BASE64.some, 32)
            /\ seed_of(mints[i].result.token) = Blob(32, 0)
            /\ mints[i].result.token[5].b64.over
               = SubSeq(mints[i].result.token, 1, 3)

\* A token was returned under a key blob of more than 32 bytes
C25_Witness ==
    \E i \in 1..Len(mints) :
        /\ Returned(i)
        /\ ByteLen(PRIVATE_KEY_BASE64.some) > 32

----------------------------------------------------------------------------
(* core/coinbase_requests_client.py: the private endpoint wrappers *)

\* A string kept split at its first "?" or "#": head holds neither of them,
\* tail is empty or starts with one.  S(s) is a string that holds neither.
S(s) == [head |-> s, tail |-> ""]

\* a + b on strings kept split
cat(a, b) ==
    IF a.tail = "" THEN [head |-> a.head \o b.head, tail |-> b.tail]
    ELSE [head |-> a.head, tail |-> a.tail \o b.head \o b.tail]

\* f"{base}{rest}" with base one of the two base URLs
Url(base, rest) == [base |-> base, rest |-> rest]

\* The two base URLs, split by hand into scheme, network location and path
BaseParts ==
    (BASE_URL :> [scheme |-> "https", netloc |-> "api.coinbase.com",
                  path |-> "/api/v3/brokerage"])
    @@ (PUBLIC_BASE_URL :> [scheme |-> "https", netloc |-> "api.coinbase.com",
                            path |-> "/api/v3/brokerage/market"])

\* urlsplit(u).netloc and urlsplit(u).path of the URL requests prepares: the path
\* ends before the first "?" or "#", what follows is query or fragment
url_host(u) == BaseParts[u.base].netloc

url_path(u) == BaseParts[u.base].path \o u.rest.head

\* Identifiers a caller may pass (account_id, order_id, product_id, trade_id,
\* portfolio_uuid, payment_method_id): a plain one, and one that holds a "?"
Identifiers == {S("a1"), [head |-> "x", tail |-> "?y"]}

\* The private wrappers: those whose URL takes an identifier, and the others
WrappersById ==
    {"get_account", "get_order", "get_product", "get_candles", "get_market_trades",
     "commit_convert_trade", "get_convert_trade", "get_portfolio_breakdown",
     "edit_portfolio", "delete_portfolio", "get_payment_method"}

WrappersFixed ==
    {"list_accounts", "create_order", "cancel_orders", "list_orders",
     "get_historical_fills", "preview_order", "get_best_bid_ask", "get_product_book",
     "list_products", "get_transactions_summary", "create_convert_quote",
     "list_portfolios", "create_portfolio", "move_portfolio_funds",
     "list_payment_methods", "get_api_key_permissions"}

\* What a wrapper hands to the executor: the verb of the executor function it
\* calls, and its two locals path and url (id is the identifier argument)
endpoint(name, id) ==
    CASE name = "list_accounts" ->
            [verb |-> "GET", path |-> S("/api/v3/brokerage/accounts"),
             url |-> Url(BASE_URL, S("/accounts"))]
      [] name = "get_account" ->
            [verb |-> "GET", path |-> cat(S("/api/v3/brokerage/accounts/"), id),
             url |-> Url(BASE_URL, cat(S("/accounts/"), id))]
      [] name = "create_order" ->
            [verb |-> "POST", path |-> S("/api/v3/brokerage/orders"),
             url |-> Url(BASE_URL, S("/orders"))]
      [] name = "cancel_orders" ->
            [verb |-> "POST", path |-> S("/api/v3/brokerage/orders/batch_cancel"),
             url |-> Url(BASE_URL, S("/orders/batch_cancel"))]
      [] name = "list_orders" ->
            [verb |-> "GET", path |-> S("/api/v3/brokerage/orders/historical/batch"),
             url |-> Url(BASE_URL, S("/orders/historical/batch"))]
      [] name = "get_historical_fills" ->
            [verb |-> "GET", path |-> S("/api/v3/brokerage/orders/historical/fills"),
             url |-> Url(BASE_URL, S("/orders/historical/fills"))]
      [] name = "get_order" ->
            [verb |-> "GET",
             path |-> cat(S("/api/v3/brokerage/orders/historical/"), id),
             url |-> Url(BASE_URL, cat(S("/orders/historical/"), id))]
      [] name = "preview_order" ->
            [verb |-> "POST", path |-> S("/api/v3/brokerage/orders/preview"),
             url |-> Url(BASE_URL, S("/orders/preview"))]
      [] name = "get_best_bid_ask" ->
            [verb |-> "GET", path |-> S("/api/v3/brokerage/best_bid_ask"),
             url |-> Url(BASE_URL, S("/best_bid_ask"))]
      [] name = "get_product_book" ->
            [verb |-> "GET", path |-> S("/api/v3/brokerage/product_book"),
             url |-> Url(BASE_URL, S("/product_book"))]
      [] name = "list_products" ->
            [verb |-> "GET", path |-> S("/api/v3/brokerage/products"),
             url |-> Url(BASE_URL, S("/products"))]
      [] name = "get_product" ->
            [verb |-> "GET", path |-> cat(S("/api/v3/brokerage/products/"), id),
             url |-> Url(BASE_URL, cat(S("/products/"), id))]
      [] name = "get_candles" ->
            [verb |-> "GET",
             path |-> cat(cat(S("/api/v3/brokerage/products/"), id), S("/candles")),
             url |-> Url(BASE_URL, cat(cat(S("/products/"), id), S("/candles")))]
      [] name = "get_market_trades" ->
            [verb |-> "GET",
             path |-> cat(cat(S("/api/v3/brokerage/products/"), id), S("/ticker")),
             url |-> Url(BASE_URL, cat(cat(S("/products/"), id), S("/ticker")))]
      [] name = "get_transactions_summary" ->
            [verb |-> "GET", path |-> S("/api/v3/brokerage/transaction_summary"),
             url |-> Url(BASE_URL, S("/transaction_summary"))]
      [] name = "create_convert_quote" ->
            [verb |-> "POST", path |-> S("/api/v3/brokerage/convert/quote"),
             url |-> Url(BASE_URL, S("/convert/quote"))]
      [] name = "commit_convert_trade" ->
            [verb |-> "POST", path |-> cat(S("/api/v3/brokerage/convert/"), id),
             url |-> Url(BASE_URL, cat(S("/convert/"), id))]
      [] name = "get_convert_trade" ->
            [verb |-> "GET", path |-> cat(S("/api/v3/brokerage/convert/"), id),
             url |-> Url(BASE_URL, cat(S("/convert/"), id))]
      [] name = "list_portfolios" ->
            [verb |-> "GET", path |-> S("/api/v3/brokerage/portfolios"),
             url |-> Url(BASE_URL, S("/portfolios"))]
      [] name = "create_portfolio" ->
            [verb |-> "POST", path |-> S("/api/v3/brokerage/portfolios"),
             url |-> Url(BASE_URL, S("/portfolios"))]
      [] name = "get_portfolio_breakdown" ->
            [verb |-> "GET", path |-> cat(S("/api/v3/brokerage/portfolios/"), id),
             url |-> Url(BASE_URL, cat(S("/portfolios/"), id))]
      [] name = "move_portfolio_funds" ->
            [verb |-> "POST", path |-> S("/api/v3/brokerage/portfolios/move_funds"),
             url |-> Url(BASE_URL, S("/portfolios/move_funds"))]
      [] name = "edit_portfolio" ->
            [verb |-> "PUT", path |-> cat(S("/api/v3/brokerage/portfolios/"), id),
             url |-> Url(BASE_URL, cat(S("/portfolios/"), id))]
      [] name = "delete_portfolio" ->
            [verb |-> "DELETE", path |-> cat(S("/api/v3/brokerage/portfolios/"), id),
             url |-> Url(BASE_URL, cat(S("/portfolios/"), id))]
      [] name = "list_payment_methods" ->
            [verb |-> "GET", path |-> S("/api/v3/brokerage/payment_methods"),
             url |-> Url(BASE_URL, S("/payment_methods"))]
      [] name = "get_payment_method" ->
            [verb |-> "GET",
             path |-> cat(S("/api/v3/brokerage/payment_methods/"), id),
             url |-> Url(BASE_URL, cat(S("/payment_methods/"), id))]
      [] name = "get_api_key_permissions" ->
            [verb |-> "GET", path |-> S("/api/v3/brokerage/key_permissions"),
             url |-> Url(BASE_URL, S("/key_permissions"))]

\* A key id and a key that mint
WrapInit ==
    /\ KEY_ID = Some("abc")
    /\ PRIVATE_KEY_BASE64 = Some(Blob(SEED_LEN, 0))
    /\ ExecutorIdle
    /\ mints = <<>>
    /\ stdout = <<>>
    /\ PageIdle
    /\ ToolIdle

\* A call of a private wrapper: it hands its verb, url and path to the executor
Wrapper ==
    \E now \in Times, nonce \in Nonces :
        \/ \E name \in WrappersById, id \in Identifiers :
              Begin(endpoint(name, id).verb, FALSE, endpoint(name, id).url,
                    endpoint(name, id).path, now, nonce)
        \/ \E name \in WrappersFixed :
              Begin(endpoint(name, S("")).verb, FALSE, endpoint(name, S("")).url,
                    endpoint(name, S("")).path, now, nonce)

\* The transport the wrappers are exercised against: success, a status that is
\* retried, a connection that cannot be opened
WrapAnswers ==
    {a \in UsedAnswers :
        \/ a.kind = "connect_error"
        \/ a.kind = "response" /\ a.retry_after = 0 /\ a.status \in {200, 503}
           /\ a.text \in DOMAIN JsonTable}

WrapAttempt == AttemptOn(WrapAnswers)

WrapNext == Wrapper \/ WrapAttempt \/ Return

SpecWrap == WrapInit /\ [][WrapNext]_vars

\* The token of a request: its Authorization value after "Bearer "
token_of(request) == SubSeq(request.headers["Authorization"], 2, 6)

\* C15 as stated: the credential on every request of a private wrapper was
\* minted with the method the request uses, the host of its URL, and a path
\* equal to the path component of its URL.
C15_UriClaimMatchesRequest ==
    \A i \in 1..Len(sent) :
        claims_of(token_of(sent[i])).uri
        = <<Lit(sent[i].method), Lit(" "), Lit(url_host(sent[i].url)),
            Lit(S(url_path(sent[i].url)))>>

----------------------------------------------------------------------------
(* core/coinbase_requests_client.py: list_accounts, the pagination loop *)

\* Fetches of one list_accounts call the log keeps (one more is kept, to tell
\* a call that made more)
MaxFetches == 2

\* Accounts the upstream holds at most
MaxAccounts == 3

\* The limit argument: its default
PageLimits == {100}

\* A dict with no key
EmptyDict == [k \in {} |-> k]

\* d.get(k): None for a key the dict lacks
get(d, k) == IF k \in DOMAIN d THEN Some(d[k]) ELSE None

\* Python truth of d.get(k) for a string and for a boolean
truthy_str(v) == v # None /\ v.some # ""

truthy_bool(v) == v # None /\ v.some = TRUE

\* Response bodies of the accounts endpoint: "accounts" with a list of items,
\* optionally "has_next" and "cursor"
ItemLists == {<<>>, <<1, 2>>, <<3>>}

PageBodies ==
    {("accounts" :> items) @@ hn @@ cu :
        items \in ItemLists,
        hn \in {EmptyDict, "has_next" :> TRUE, "has_next" :> FALSE},
        cu \in {EmptyDict, "cursor" :> "", "cursor" :> "a", "cursor" :> "b"}}

\* What one _get of the loop may give: a decoded body (a page, or a JSON object
\* without "accounts"), the executor's error record, or an exception
GetOutcomes ==
    {[returned |-> b] : b \in PageBodies}
    \cup {[returned |-> [message |-> "unexpected"]],
          [returned |-> [error |-> http_error_text(404, BASE_URL \o "/accounts"),
                         status_code |-> 404, body |-> "<html>"]],
          [raised |-> "RetryError"], [raised |-> "ConnectionError"]}

\* all_accounts.extend(items) done the other way round
extend_in_front(all, items) == items \o all

\* all_accounts.extend(items)
extend(all, items) == all \o items

\* The params dict of one iteration
page_params(limit, cursor) ==
    IF truthy_str(cursor) THEN [limit |-> limit, cursor |-> cursor.some]
    ELSE [limit |-> limit]

\* The log of _get calls, which keeps the first MaxFetches + 1 of them
logged(log, entry) == IF Len(log) <= MaxFetches THEN Append(log, entry) ELSE log

PageInit ==
    /\ KEY_ID = Some("abc")
    /\ PRIVATE_KEY_BASE64 = Some(Blob(SEED_LEN, 0))
    /\ ExecutorIdle
    /\ mints = <<>>
    /\ stdout = <<>>
    /\ PageIdle
    /\ ToolIdle

\* list_accounts(limit) is called: lines 78-81
list_accounts ==
    \E limit \in PageLimits :
        /\ la.pc = "idle"
        /\ la' = [pc |-> "loop", limit |-> limit, cursor |-> None,
                  all_accounts |-> <<>>]
        /\ fetches' = <<>>
        /\ UNCHANGED <<KEY_ID, PRIVATE_KEY_BASE64, executorVars, minterVars, toolVars,
                       concVars>>

\* One iteration of the while loop, lines 83-94, on what its _get gives; the
\* upstream sends items only up to the accounts it holds
FetchPage ==
    \E out \in GetOutcomes :
        LET params == page_params(la.limit, la.cursor)
            result == out.returned
            all    == extend(la.all_accounts, result.accounts)
        IN  /\ la.pc = "loop"
            /\ ("returned" \in DOMAIN out /\ "accounts" \in DOMAIN out.returned)
               => Len(la.all_accounts) + Len(out.returned.accounts) <= MaxAccounts
            /\ fetches' = logged(fetches, [params |-> params, out |-> out])
            /\ la' =
                 IF "raised" \in DOMAIN out
                 THEN [pc |-> "raised", result |-> out]
                 ELSE IF "accounts" \notin DOMAIN result
                 THEN [pc |-> "returned",
                       result |-> [returned |-> [accounts |-> la.all_accounts]]]
                 ELSE IF ~truthy_bool(get(result, "has_next"))
                 THEN [pc |-> "returned", result |-> [returned |-> [accounts |-> all]]]
                 ELSE [pc |-> "loop", limit |-> la.limit,
                       cursor |-> get(result, "cursor"), all_accounts |-> all]
            /\ UNCHANGED <<KEY_ID, PRIVATE_KEY_BASE64, executorVars, minterVars,
                           toolVars, concVars>>

\* list_accounts returns (line 95) or its exception leaves it: the caller has
\* the result, the locals are gone
ListAccountsReturn ==
    /\ la.pc \in {"returned", "raised"}
    /\ la' = [pc |-> "idle"]
    /\ fetches' = <<>>
    /\ UNCHANGED <<KEY_ID, PRIVATE_KEY_BASE64, executorVars, minterVars, toolVars,
                       concVars>>

PageNext == list_accounts \/ FetchPage \/ ListAccountsReturn

SpecPage == PageInit /\ [][PageNext]_vars

\* The loop runs on: an iteration that can be taken is taken
SpecPageFair == SpecPage /\ WF_vars(FetchPage) /\ WF_vars(ListAccountsReturn)

----------------------------------------------------------------------------
(* Properties of the pagination loop *)

\* Every fetch of the call is in the log
LogComplete == Len(fetches) <= MaxFetches

\* Fetch i gave a page: a decoded body with "accounts"
IsPage(i) ==
    /\ "returned" \in DOMAIN fetches[i].out
    /\ "accounts" \in DOMAIN fetches[i].out.returned

\* The items of the pages among fetches i.., one after the other
RECURSIVE ItemsFrom(_)
ItemsFrom(i) ==
    IF i > Len(fetches) THEN <<>>
    ELSE (IF IsPage(i) THEN fetches[i].out.returned.accounts ELSE <<>>)
         \o ItemsFrom(i + 1)

\* Page i says that more pages follow
SaysMore(i) ==
    /\ "has_next" \in DOMAIN fetches[i].out.returned
    /\ fetches[i].out.returned.has_next = TRUE

\* The pages of the example: items 1, 2 with has_next true and cursor "a",
\* then item 3 with has_next false
ExamplePages ==
    <<[accounts |-> <<1, 2>>, has_next |-> TRUE, cursor |-> "a"],
      [accounts |-> <<3>>, has_next |-> FALSE]>>

\* C16: the loop's first fetch sends no cursor; every page but the last fetched
\* says has_next true, and the loop stops at the first page that does not; what
\* list_accounts returns is the items of the pages fetched, in arrival order.
\* The two example pages give [1, 2, 3] after 2 fetches.
C16_PaginationConcatenates ==
    /\ \A i \in 1..Len(fetches) : i = 1 => DOMAIN fetches[i].params = {"limit"}
    /\ \A i \in 1..(Len(fetches) - 1) : LogComplete => (IsPage(i) /\ SaysMore(i))
    /\ (la.pc = "loop" /\ LogComplete)
       => \A i \in 1..Len(fetches) : IsPage(i) /\ SaysMore(i)
    /\ (la.pc = "returned" /\ LogComplete)
       => /\ fetches # <<>>
          /\ ~(IsPage(Len(fetches)) /\ SaysMore(Len(fetches)))
          /\ la.result = [returned |-> [accounts |-> ItemsFrom(1)]]
    /\ (LogComplete /\ Len(fetches) = 2
        /\ \A i \in 1..2 : fetches[i].out = [returned |-> ExamplePages[i]])
       => (la.pc = "returned"
           /\ la.result = [returned |-> [accounts |-> <<1, 2, 3>>]])

\* The example: both pages fetched, the second with the cursor of the first
C16_Witness ==
    /\ la.pc = "returned"
    /\ Len(fetches) = 2
    /\ \A i \in 1..2 : fetches[i].out = [returned |-> ExamplePages[i]]
    /\ fetches[2].params.cursor = "a"

\* C17 as stated: the pagination loop always terminates, also against an
\* upstream that says has_next true on every page.
C17_PaginationTerminates ==
    (la.pc = "loop") ~> (la.pc \in {"returned", "raised"})

\* C28 as stated: every fetch after the first sends the cursor that the page
\* before it returned, and is not the request of the first page again.
C28_CursorChaining ==
    LogComplete =>
        \A i \in 2..Len(fetches) :
            /\ "cursor" \in DOMAIN fetches[i].params
            /\ get(fetches[i - 1].out.returned, "cursor")
               = Some(fetches[i].params.cursor)
            /\ fetches[i].params # fetches[1].params

----------------------------------------------------------------------------
(* tools/*.py: the MCP tools over the core functions *)

\* Each tool: the core function it calls, the number of validation checks that
\* return before that call, how it reports an error record of the core
\* ("details": the whole record under "details"; "fields": the body under
\* "details" and the status code; "error_only": the error text alone), and the
\* texts it puts in front of the core's error and of an exception.
\* The fields of a result that repeat the arguments are left out.
ToolTable ==
    ("cancel_orders" :>
        [core |-> "cancel_orders", checks |-> 2, style |-> "details",
         fail |-> "Failed to cancel orders: ", exc |-> "Error canceling orders: "])
    @@ ("create_convert_quote" :>
        [core |-> "create_convert_quote", checks |-> 4, style |-> "fields",
         fail |-> "API error: ", exc |-> "Failed to create convert quote: "])
    @@ ("create_order" :>
        [core |-> "create_order", checks |-> 0, style |-> "details",
         fail |-> "Failed to create order: ", exc |-> "Error creating order: "])
    @@ ("delete_portfolio" :>
        [core |-> "delete_portfolio", checks |-> 1, style |-> "details",
         fail |-> "Failed to delete portfolio: ", exc |-> "Error deleting portfolio: "])
    @@ ("edit_portfolio" :>
        [core |-> "edit_portfolio", checks |-> 2, style |-> "details",
         fail |-> "Failed to edit portfolio: ", exc |-> "Error editing portfolio: "])
    @@ ("get_account" :>
        [core |-> "list_accounts", checks |-> 1, style |-> "error_only",
         fail |-> "API Error: ", exc |-> "Failed to fetch account for "])
    @@ ("get_best_bid_ask" :>
        [core |-> "get_best_bid_ask", checks |-> 2, style |-> "details",
         fail |-> "Failed to retrieve bid/ask: ", exc |-> "Error retrieving bid/ask: "])
    @@ ("get_convert_trade" :>
        [core |-> "get_convert_trade", checks |-> 3, style |-> "fields",
         fail |-> "API error: ", exc |-> "Failed to get convert trade: "])
    @@ ("get_order" :>
        [core |-> "get_order", checks |-> 1, style |-> "details",
         fail |-> "Failed to retrieve order: ", exc |-> "Error retrieving order: "])
    @@ ("get_portfolio_breakdown" :>
        [core |-> "get_portfolio_breakdown", checks |-> 1, style |-> "details",
         fail |-> "Failed to retrieve portfolio breakdown: ", exc |-> "Error retrieving portfolio breakdown: "])
    @@ ("get_product_book" :>
        [core |-> "get_product_book", checks |-> 2, style |-> "details",
         fail |-> "Failed to retrieve order book: ", exc |-> "Error retrieving order book: "])
    @@ ("get_public_product" :>
        [core |-> "get_public_product", checks |-> 1, style |-> "fields",
         fail |-> "API error: ", exc |-> "Failed to get public product: "])
    @@ ("get_public_product_book" :>
        [core |-> "get_public_product_book", checks |-> 2, style |-> "fields",
         fail |-> "API error: ", exc |-> "Failed to get public order book: "])
    @@ ("list_accounts" :>
        [core |-> "list_accounts", checks |-> 0, style |-> "error_only",
         fail |-> "API Error: ", exc |-> "Failed to fetch accounts: "])
    @@ ("commit_convert_trade" :>
        [core |-> "commit_convert_trade", checks |-> 5, style |-> "fields",
         fail |-> "API error: ", exc |-> "Failed to commit convert trade: "])
    @@ ("create_portfolio" :>
        [core |-> "create_portfolio", checks |-> 1, style |-> "details",
         fail |-> "Failed to create portfolio: ", exc |-> "Error creating portfolio: "])
    @@ ("get_api_key_permissions" :>
        [core |-> "get_api_key_permissions", checks |-> 0, style |-> "details",
         fail |-> "Failed to retrieve API key permissions: ", exc |-> "Error retrieving API key permissions: "])
    @@ ("get_historical_fills" :>
        [core |-> "get_historical_fills", checks |-> 0, style |-> "error_only",
         fail |-> "API Error: ", exc |-> "Failed to fetch historical fills: "])
    @@ ("get_market_trades" :>
        [core |-> "get_market_trades", checks |-> 2, style |-> "details",
         fail |-> "Failed to retrieve market trades: ", exc |-> "Error retrieving market trades: "])
    @@ ("get_payment_method" :>
        [core |-> "get_payment_method", checks |-> 1, style |-> "details",
         fail |-> "Failed to retrieve payment method: ", exc |-> "Error retrieving payment method: "])
    @@ ("get_product" :>
        [core |-> "get_product", checks |-> 1, style |-> "details",
         fail |-> "Failed to retrieve product: ", exc |-> "Error retrieving product: "])
    @@ ("get_product_candles" :>
        [core |-> "get_candles", checks |-> 2, style |-> "details",
         fail |-> "Failed to retrieve candles: ", exc |-> "Error retrieving candles: "])
    @@ ("get_public_candles" :>
        [core |-> "get_public_candles", checks |-> 4, style |-> "fields",
         fail |-> "API error: ", exc |-> "Failed to get public candles: "])
    @@ ("get_public_market_trades" :>
        [core |-> "get_public_market_trades", checks |-> 2, style |-> "fields",
         fail |-> "API error: ", exc |-> "Failed to get public market trades: "])
    @@ ("get_server_time" :>
        [core |-> "get_server_time", checks |-> 0, style |-> "details",
         fail |-> "Failed to retrieve server time: ", exc |-> "Error retrieving server time: "])
    @@ ("get_transactions_summary" :>
        [core |-> "get_transactions_summary", checks |-> 2, style |-> "fields",
         fail |-> "API error: ", exc |-> "Failed to get transaction summary: "])
    @@ ("list_orders" :>
        [core |-> "list_orders", checks |-> 2, style |-> "details",
         fail |-> "Failed to retrieve orders: ", exc |-> "Error retrieving orders: "])
    @@ ("list_payment_methods" :>
        [core |-> "list_payment_methods", checks |-> 0, style |-> "details",
         fail |-> "Failed to retrieve payment methods: ", exc |-> "Error retrieving payment methods: "])
    @@ ("list_portfolios" :>
        [core |-> "list_portfolios", checks |-> 0, style |-> "details",
         fail |-> "Failed to retrieve portfolios: ", exc |-> "Error retrieving portfolios: "])
    @@ ("list_products" :>
        [core |-> "list_products", checks |-> 0, style |-> "details",
         fail |-> "Failed to retrieve products: ", exc |-> "Error retrieving products: "])
    @@ ("list_public_products" :>
        [core |-> "list_public_products", checks |-> 2, style |-> "fields",
         fail |-> "API error: ", exc |-> "Failed to list public products: "])
    @@ ("move_portfolio_funds" :>
        [core |-> "move_portfolio_funds", checks |-> 4, style |-> "details",
         fail |-> "Failed to move funds: ", exc |-> "Error moving funds: "])
    @@ ("preview_order" :>
        [core |-> "preview_order", checks |-> 3, style |-> "fields",
         fail |-> "API error: ", exc |-> "Failed to preview order: "])

Tools == DOMAIN ToolTable

\* The tools whose core function is the pagination loop
PagedTools == {t \in Tools : ToolTable[t].core = "list_accounts"}

\* An invocation's arguments, as far as the validation goes: the first check
\* they fail, 0 if they pass all
Failing(name) == 0..ToolTable[name].checks

\* The tool's arguments.  For cancel_orders, list_orders, get_product_book,
\* move_portfolio_funds and get_historical_fills the values the code looks at
\* (a list is given by its length); for the other tools the first validation
\* check the arguments fail
ToolArgs(name) ==
    CASE name = "cancel_orders" ->
            {[order_ids |-> n] : n \in {0, 1, 100, 101}}
      [] name = "list_orders" ->
            {[limit |-> l, order_status |-> st] :
                l \in {100, 1000, 1001},
                st \in {None, Some(""), Some("open"), Some("FILLED"), Some("BOGUS")}}
      [] name = "get_product_book" ->
            {[product_id |-> pid, limit |-> l] :
                pid \in {"", "BTC-USD"},
                l \in {None, Some(0), Some(1), Some(250), Some(251)}}
      [] name = "move_portfolio_funds" ->
            {[source_portfolio_uuid |-> a, target_portfolio_uuid |-> b,
              currency |-> c, value |-> v] :
                a \in {"", "p1"}, b \in {"", "p2"}, c \in {"", "usd"}, v \in {"", "10"}}
      [] name = "get_historical_fills" ->
            {[limit |-> l] : l \in {-101, -1, 0, 1, 5, 100, 101, 1000}}
      [] OTHER -> {[failing |-> k] : k \in Failing(name)}

\* valid_statuses of list_orders
VALID_STATUSES == {"OPEN", "FILLED", "CANCELLED", "EXPIRED", "FAILED"}

\* order_status.upper() on the statuses a caller may pass
status_upper(st) == IF st = "open" THEN "OPEN" ELSE st

\* A validation that lets every argument pass
first_failing_none(name, args) == 0

\* The validation of a tool: the number of the first check that returns, 0 if
\* the arguments get to the core call
first_failing(name, args) ==
    CASE name = "cancel_orders" ->
            IF args.order_ids = 0 THEN 1
            ELSE IF args.order_ids > 100 THEN 2 ELSE 0
      [] name = "list_orders" ->
            IF args.limit > 1000 THEN 1
            ELSE IF /\ truthy_str(args.order_status)
                    /\ status_upper(args.order_status.some) \notin VALID_STATUSES
                 THEN 2 ELSE 0
      [] name = "get_product_book" ->
            IF args.product_id = "" THEN 1
            ELSE IF /\ args.limit # None
                    /\ (args.limit.some < 1 \/ args.limit.some > 250)
                 THEN 2 ELSE 0
      [] name = "move_portfolio_funds" ->
            IF args.source_portfolio_uuid = "" THEN 1
            ELSE IF args.target_portfolio_uuid = "" THEN 2
            ELSE IF args.currency = "" THEN 3
            ELSE IF args.value = "" THEN 4 ELSE 0
      [] name = "get_historical_fills" -> 0
      [] OTHER -> args.failing

min(a, b) == IF a <= b THEN a ELSE b

max(a, b) == IF a >= b THEN a ELSE b

\* A clamp that forgets the lower end
safe_limit_unfloored(limit) == min(limit, 100)

\* get_historical_fills (tool): safe_limit = min(max(1, limit), 100)
safe_limit(limit) ==
    min(max(1, limit), 100)

\* get_historical_fills (core): the query parameters; a product_id or a limit
\* that is not truthy is left out
fills_params(product_id, limit) ==
    (IF truthy_str(product_id) THEN ("product_id" :> product_id.some) ELSE EmptyDict)
    @@ (IF limit # 0 THEN ("limit" :> limit) ELSE EmptyDict)

\* The query parameters of the request the core function sends, for the tool
\* whose parameters the model follows
core_params(name, args) ==
    IF name = "get_historical_fills"
    THEN fills_params(None, safe_limit(args.limit))
    ELSE EmptyDict

\* A validation that rejects nothing
rejects_nothing(failing) == FALSE

\* The tool returns at a validation check
rejects(failing) == failing > 0

\* What the core function of a tool that is not paged may give: what its one
\* executor call gives
CoreOutcomes ==
    {[returned |-> [ok |-> TRUE]],
     [returned |-> [error |-> http_error_text(404, BASE_URL),
                    status_code |-> 404, body |-> "<html>"]],
     [returned |-> [error |-> http_error_text(413, BASE_URL),
                    status_code |-> 413, body |-> ""]],
     [raised |-> "RetryError"], [raised |-> "ConnectionError"],
     [raised |-> "JSONDecodeError"], [raised |-> "TypeError"]}

\* The currency of each account the upstream holds
ItemCurrency == (1 :> "BTC") @@ (2 :> "ETH") @@ (3 :> "BTC")

\* [acct for acct in accounts if acct.get("currency", "").upper() == currency]
RECURSIVE matching(_, _)
matching(accounts, currency) ==
    IF accounts = <<>> THEN <<>>
    ELSE (IF ItemCurrency[Head(accounts)] = currency THEN <<Head(accounts)>> ELSE <<>>)
         \o matching(Tail(accounts), currency)

\* The result of a tool at a failed validation check
shape_rejected(name, failing) ==
    IF name = "get_account"
    THEN [error |-> <<Lit("Currency parameter is required")>>]
    ELSE [status |-> "error", message |-> <<Lit("validation"), Lit(failing)>>]

\* The result of a tool whose core call gave an error record: the branch
\* if "error" in result
shape_error(name, rec) ==
    LET t == ToolTable[name]
    IN  CASE t.style = "details" ->
                [status |-> "error", message |-> <<Lit(t.fail)>> \o rec.error,
                 details |-> [dict |-> rec]]
          [] t.style = "fields" ->
                [status |-> "error", message |-> <<Lit(t.fail)>> \o rec.error,
                 details |-> [text |-> rec.body], status_code |-> rec.status_code]
          [] t.style = "error_only" ->
                [error |-> <<Lit(t.fail)>> \o rec.error]

\* A tool without the except branch: the exception leaves the tool
shape_exception_propagated(name, exc) == [raised |-> exc]

\* The result of a tool whose core call raised: the branch except Exception
shape_exception(name, exc) ==
    LET t == ToolTable[name]
    IN  IF t.style = "error_only"
        THEN [error |-> <<Lit(t.exc), Lit(exc)>>]
        ELSE [status |-> "error", message |-> <<Lit(t.exc), Lit(exc)>>]

\* The result of a tool whose core call gave a body without "error"
shape_success(name, currency, body) ==
    CASE name = "list_accounts" ->
            [accounts_count |-> Len(body.accounts), balances |-> body.accounts]
      [] name = "get_account" ->
            IF matching(body.accounts, currency) = <<>>
            THEN [error |-> <<Lit("No account found for "), Lit(currency)>>]
            ELSE [account |-> Head(matching(body.accounts, currency))]
      [] name = "get_historical_fills" -> [fills |-> body]
      [] OTHER -> [status |-> "success", data |-> body]

\* The result of a tool on what its core call gave
shape(name, currency, out) ==
    IF "raised" \in DOMAIN out THEN shape_exception(name, out.raised)
    ELSE IF "error" \in DOMAIN out.returned THEN shape_error(name, out.returned)
    ELSE shape_success(name, currency, out.returned)

ToolInit ==
    /\ KEY_ID = Some("abc")
    /\ PRIVATE_KEY_BASE64 = Some(Blob(SEED_LEN, 0))
    /\ ExecutorIdle
    /\ mints = <<>>
    /\ stdout = <<>>
    /\ PageIdle
    /\ ToolIdle

\* A tool is invoked and validates its arguments
ToolInvoke ==
    \E name \in Tools :
        \E args \in ToolArgs(name) :
            LET failing == first_failing(name, args)
            IN  /\ tool.pc = "idle"
                /\ tool' = IF rejects(failing)
                           THEN [pc |-> "done", name |-> name, args |-> args,
                                 failing |-> failing,
                                 result |-> shape_rejected(name, failing)]
                           ELSE [pc |-> "call", name |-> name, args |-> args,
                                 failing |-> failing]
            /\ UNCHANGED <<KEY_ID, PRIVATE_KEY_BASE64, executorVars, minterVars,
                           pageVars, core_calls, concVars>>

\* The tool calls its core function.  A core function that is not paged makes
\* its one executor call and the tool shapes what it gives; list_accounts,
\* called with its default limit, enters its loop
CoreCall ==
    /\ tool.pc = "call"
    /\ core_calls' = Append(core_calls, ToolTable[tool.name].core)
    /\ IF tool.name \in PagedTools
       THEN /\ tool' = [tool EXCEPT !.pc = "paging"]
            /\ la' = [pc |-> "loop", limit |-> 100, cursor |-> None,
                      all_accounts |-> <<>>]
            /\ fetches' = <<>>
       ELSE /\ \E out \in CoreOutcomes :
                  tool' = [pc |-> "done", name |-> tool.name, args |-> tool.args,
                           failing |-> tool.failing,
                           params |-> core_params(tool.name, tool.args),
                           out |-> out, result |-> shape(tool.name, "BTC", out)]
            /\ UNCHANGED pageVars
    /\ UNCHANGED <<KEY_ID, PRIVATE_KEY_BASE64, executorVars, minterVars, concVars>>

\* list_accounts has returned or raised: the tool shapes what it gave
ToolFinish ==
    /\ tool.pc = "paging"
    /\ la.pc \in {"returned", "raised"}
    /\ tool' = [pc |-> "done", name |-> tool.name, args |-> tool.args,
                failing |-> tool.failing,
                out |-> la.result, result |-> shape(tool.name, "BTC", la.result)]
    /\ la' = [pc |-> "idle"]
    /\ UNCHANGED <<KEY_ID, PRIVATE_KEY_BASE64, executorVars, minterVars, fetches,
                   core_calls, concVars>>

\* The tool's result goes to the MCP server; nothing of the invocation stays
ToolReturn ==
    /\ tool.pc = "done"
    /\ tool' = [pc |-> "idle"]
    /\ core_calls' = <<>>
    /\ fetches' = <<>>
    /\ UNCHANGED <<KEY_ID, PRIVATE_KEY_BASE64, executorVars, minterVars, la, concVars>>

ToolNext == ToolInvoke \/ CoreCall \/ FetchPage \/ ToolFinish \/ ToolReturn

SpecTool == ToolInit /\ [][ToolNext]_vars

----------------------------------------------------------------------------
(* Properties of the tool layer *)

\* The error records the core function handed to the tool
ErrorRecords ==
    IF "returned" \in DOMAIN tool.out /\ "error" \in DOMAIN tool.out.returned
    THEN {tool.out.returned} ELSE {}

\* text ends with the pieces of suffix
EndsWith(text, suffix) ==
    /\ Len(text) >= Len(suffix)
    /\ SubSeq(text, Len(text) - Len(suffix) + 1, Len(text)) = suffix

\* The record under "details", if the result has one
DetailsDict(res) ==
    IF "details" \in DOMAIN res /\ "dict" \in DOMAIN res.details
    THEN res.details.dict ELSE EmptyDict

\* The result holds the record's error text: as a field of its own or of the
\* record under "details", or at the end of its message or error text
EchoesError(res, rec) ==
    \/ "error" \in DOMAIN DetailsDict(res) /\ DetailsDict(res).error = rec.error
    \/ "message" \in DOMAIN res /\ EndsWith(res.message, rec.error)
    \/ "error" \in DOMAIN res /\ EndsWith(res.error, rec.error)

EchoesStatusCode(res, rec) ==
    \/ "status_code" \in DOMAIN res /\ res.status_code = rec.status_code
    \/ "status_code" \in DOMAIN DetailsDict(res)
       /\ DetailsDict(res).status_code = rec.status_code

EchoesBody(res, rec) ==
    \/ "body" \in DOMAIN DetailsDict(res) /\ DetailsDict(res).body = rec.body
    \/ "details" \in DOMAIN res /\ "text" \in DOMAIN res.details
       /\ res.details.text = rec.body

\* C18 as stated: when the core has handed back an error record, the result of
\* the tool holds the record's error, status_code and body unchanged, whatever
\* the tool.
C18_ToolEchoesErrorRecord ==
    (tool.pc = "done" /\ "out" \in DOMAIN tool) =>
        \A rec \in ErrorRecords :
            /\ EchoesError(tool.result, rec)
            /\ EchoesStatusCode(tool.result, rec)
            /\ EchoesBody(tool.result, rec)

\* C19 as stated: every tool invocation makes exactly one core call.
C19_ExactlyOneCoreCall ==
    tool.pc = "done" => Len(core_calls) = 1

\* C19 amended: an invocation whose arguments pass the tool's validation makes
\* exactly one core call, that of the tool's own core function (one executor
\* call, or one pagination loop for the tools over list_accounts); an
\* invocation the validation rejects makes none; none makes several.
C19_OneCoreCallUnlessRejected ==
    /\ Len(core_calls) <= 1
    /\ \A i \in 1..Len(core_calls) : core_calls[i] = ToolTable[tool.name].core
    /\ tool.pc = "done" =>
          Len(core_calls) = IF tool.failing = 0 THEN 1 ELSE 0
    /\ (tool.pc \in {"idle", "call"} \/ tool.name \notin PagedTools) => fetches = <<>>

\* The list_accounts tool has finished after a loop of two fetches
C19_Witness ==
    /\ tool.pc = "done"
    /\ tool.name = "list_accounts"
    /\ core_calls = <<"list_accounts">>
    /\ Len(fetches) = 2

\* The cases of rejected arguments that C23 names
NamedRejection ==
    /\ tool.pc # "idle"
    /\ \/ tool.name = "cancel_orders"
          /\ (tool.args.order_ids = 0 \/ tool.args.order_ids > 100)
       \/ tool.name = "list_orders"
          /\ \/ tool.args.limit > 1000
             \/ /\ truthy_str(tool.args.order_status)
                /\ status_upper(tool.args.order_status.some) \notin VALID_STATUSES
       \/ tool.name = "get_product_book"
          /\ tool.args.limit # None
          /\ (tool.args.limit.some < 1 \/ tool.args.limit.some > 250)
       \/ tool.name = "move_portfolio_funds"
          /\ "" \in {tool.args.source_portfolio_uuid, tool.args.target_portfolio_uuid,
                      tool.args.currency, tool.args.value}

\* C23: in each case of rejected arguments that the claim names, the tool ends
\* with status "error" without a core call; and whenever the validation of any
\* tool rejects, no core function is called, so that no token is minted and no
\* request is issued: the invocation ends with no core call, no page fetch and
\* no core outcome.
C23_RejectionCallsNothing ==
    /\ NamedRejection =>
          /\ tool.pc = "done"
          /\ rejects(tool.failing)
          /\ tool.result.status = "error"
    /\ (tool.pc # "idle" /\ rejects(tool.failing)) =>
          /\ tool.pc = "done"
          /\ core_calls = <<>>
          /\ fetches = <<>>
          /\ la.pc = "idle"
          /\ "out" \notin DOMAIN tool

\* get_product_book has ended on a limit above 250 for a product that is named
C23_Witness ==
    /\ tool.pc = "done"
    /\ tool.name = "get_product_book"
    /\ tool.args = [product_id |-> "BTC-USD", limit |-> Some(251)]
    /\ tool.result.status = "error"

\* C24: whatever integer limit the get_historical_fills tool is given, the
\* request of its core call carries a limit parameter, whose value lies in
\* 1..100: the limit given if that lies in 1..100, 1 if it is below, 100 if it
\* is above.
C24_LimitClamped ==
    (tool.pc = "done" /\ tool.name = "get_historical_fills") =>
        /\ "params" \in DOMAIN tool
        /\ "limit" \in DOMAIN tool.params
        /\ tool.params.limit \in 1..100
        /\ tool.params.limit =
              IF tool.args.limit < 1 THEN 1
              ELSE IF tool.args.limit > 100 THEN 100
              ELSE tool.args.limit

\* The tool was given the limit 0, and its core call has sent the limit 1
C24_Witness ==
    /\ tool.pc = "done"
    /\ tool.name = "get_historical_fills"
    /\ tool.args.limit = 0
    /\ tool.params = ("limit" :> 1)

\* Fetch i of the loop ended in an error record
IsErrorRecord(i) ==
    /\ "returned" \in DOMAIN fetches[i].out
    /\ "error" \in DOMAIN fetches[i].out.returned

\* C26 as stated: if a page fetch inside list_accounts ended in an error
\* record, the result of the list_accounts tool has an "error" field.
C26_PageErrorSurfaces ==
    (/\ tool.pc = "done"
     /\ tool.name = "list_accounts"
     /\ \E i \in 1..Len(fetches) : IsErrorRecord(i))
    => "error" \in DOMAIN tool.result

\* The result is a dictionary marked as an error
MarkedAsError(res) ==
    \/ "status" \in DOMAIN res /\ res.status = "error"
    \/ "error" \in DOMAIN res

\* C29: a tool invocation ends by returning a dictionary, never by an
\* exception: when its core function raised (a connection failure, exhausted
\* retries, an undecodable body, a missing key), the tool's result is a
\* dictionary marked as an error by status "error" or an "error" field.
C29_ToolReturnsDictionary ==
    tool.pc = "done" =>
        /\ "raised" \notin DOMAIN tool.result
        /\ ("out" \in DOMAIN tool /\ "raised" \in DOMAIN tool.out)
           => MarkedAsError(tool.result)

\* list_accounts (tool) has ended after the second page fetch of its core call
\* raised for exhausted retries
C29_Witness ==
    /\ tool.pc = "done"
    /\ tool.name = "list_accounts"
    /\ tool.out = [raised |-> "RetryError"]
    /\ Len(fetches) = 2
    /\ MarkedAsError(tool.result)

----------------------------------------------------------------------------
(* Concurrent calls of the executor: each thread runs _get, _post, _put or
   _delete in a frame of its own; the module's session and key are shared *)

\* The calls begun by all threads together
MaxCalls == 2

\* The calls the threads make: a wrapper's verb, url and path
ConcCalls == {endpoint("list_accounts", S("")), endpoint("create_order", S(""))}

\* The clock as the concurrent calls read it
ConcClock == {t \in ClockReadings : t.tenths = 0}

\* The calls that the threads have begun
RECURSIVE Begun(_, _)
Begun(c, ts) ==
    IF ts = {} THEN 0
    ELSE LET t == CHOOSE x \in ts : TRUE IN c[t].n + Begun(c, ts \ {t})

\* The headers a thread hands to session.request: those of another frame
attached_other(c, t) ==
    LET o == CHOOSE x \in Threads : x # t
    IN  IF "headers" \in DOMAIN c[o] THEN c[o].headers ELSE c[t].headers

\* The headers a thread hands to session.request: the local variable headers of
\* its own frame
attached(c, t) ==
    c[t].headers

ConcInit ==
    /\ \E env \in Envs : KEY_ID = env[1] /\ PRIVATE_KEY_BASE64 = env[2]
    /\ ExecutorIdle
    /\ mints = <<>>
    /\ stdout = <<>>
    /\ PageIdle
    /\ ToolIdle

\* A thread enters an executor function
ConcBegin(t) ==
    \E e \in ConcCalls :
        /\ calls[t].pc \in {"idle", "done"}
        /\ Begun(calls, Threads) < MaxCalls
        /\ calls' = [calls EXCEPT ![t] = [pc |-> "entered", n |-> calls[t].n + 1,
                                           method |-> e.verb, url |-> e.url,
                                           path |-> e.path.head]]
        /\ UNCHANGED <<KEY_ID, PRIVATE_KEY_BASE64, executorVars, minterVars, pageVars,
                       toolVars, wire>>

\* headers = _headers(verb, path): the thread mints and keeps the result in its
\* frame, or the minting raises and the call ends
ConcMint(t) ==
    \E now \in ConcClock :
        \E nonce \in token_hex(Drawn) :
            LET c == calls[t]
                h == _headers(c.method, c.path, int(now), nonce)
            IN  /\ c.pc = "entered"
                /\ mints' = Append(mints,
                       [thread |-> t, call |-> c.n, method |-> c.method,
                        path |-> c.path, host |-> HOST, time |-> now, nonce |-> nonce,
                        result |-> build_jwt(c.method, c.path, HOST, int(now), nonce)])
                /\ stdout' = stdout \o printed(c.method, c.path, HOST, int(now), nonce)
                /\ calls' = [calls EXCEPT ![t] =
                       IF "raised" \in DOMAIN h
                       THEN [pc |-> "done", n |-> c.n, outcome |-> h]
                       ELSE [pc |-> "sending", n |-> c.n, method |-> c.method,
                             url |-> c.url, path |-> c.path, headers |-> h.dict,
                             sends |-> 0]]
                /\ UNCHANGED <<KEY_ID, PRIVATE_KEY_BASE64, executorVars, pageVars,
                               toolVars, wire>>

\* session.request(verb, url, headers=headers): the adapter transmits the
\* request; the upstream's answer ends the call or, once, makes the adapter send
\* the same prepared request again
ConcSend(t) ==
    \E again \in BOOLEAN :
        LET c == calls[t]
        IN  /\ c.pc = "sending"
            /\ again => c.sends = 0 /\ c.method = "GET"
            /\ wire' = wire \cup {[thread |-> t, call |-> c.n, attempt |-> c.sends + 1,
                                   method |-> c.method, url |-> c.url,
                                   path |-> c.path, headers |-> attached(calls, t)]}
            /\ calls' = [calls EXCEPT ![t] =
                   IF again THEN [c EXCEPT !.sends = c.sends + 1]
                   ELSE [pc |-> "done", n |-> c.n, outcome |-> [returned |-> "body"]]]
            /\ UNCHANGED <<KEY_ID, PRIVATE_KEY_BASE64, executorVars, minterVars, pageVars,
                           toolVars>>

ConcNext == \E t \in Threads : ConcBegin(t) \/ ConcMint(t) \/ ConcSend(t)

SpecConc == ConcInit /\ [][ConcNext]_vars

----------------------------------------------------------------------------
(* Properties of concurrent calls *)

\* The mints of the call numbered n of thread t
MintsOf(t, n) == {i \in 1..Len(mints) : mints[i].thread = t /\ mints[i].call = n}

\* C20: under any interleaving of concurrent private calls, every transmitted
\* request carries the credential that its own call minted, whose uri claim names
\* the method and the path of that call, and carries no credential that another
\* call minted.
C20_OwnCredential ==
    \A r \in wire :
        /\ \E i \in MintsOf(r.thread, r.call) :
              mints[i].result = [token |-> token_of(r)]
        /\ claims_of(token_of(r)).uri
           = <<Lit(r.method), Lit(" "), Lit(url_host(r.url)), Lit(r.path)>>
        /\ \A i \in 1..Len(mints) :
              (i \notin MintsOf(r.thread, r.call) /\ Returned(i))
                  => mints[i].result.token # token_of(r)

\* Two threads have called the same endpoint, minted in the same second, and
\* both requests are on the wire while one thread is still sending
C20_Witness ==
    /\ \E r1, r2 \in wire :
          /\ r1.thread # r2.thread
          /\ r1.method = r2.method /\ r1.path = r2.path
          /\ claims_of(token_of(r1)).nbf = claims_of(token_of(r2)).nbf
    /\ \E t \in Threads : calls[t].pc = "sending"

====
